---- MODULE Spec2Model ----
(***************************************************************************)
(* Model of examples/python_ffi_example.py: the module-level import of the *)
(* native extension, the network strategy call_via_http, the dispatcher    *)
(* call_service and the timing harness benchmark_ffi_vs_http.              *)
(*                                                                         *)
(* External collaborators (the native extension, the HTTP server, the wall *)
(* clock) are nondeterministic inputs of the actions.  Times are integer   *)
(* clock ticks, quotients are exact rationals <<numerator, denominator>>;  *)
(* floating-point rounding is not modelled.  The clock is taken to be      *)
(* non-decreasing and may stand still between two readings.                *)
(***************************************************************************)
EXTENDS Integers, Sequences, FiniteSets, TLC

\* ---------------------------------------------------------------- bounds
\* benchmark_ffi_vs_http sets iterations = 10000 (line 72); scaled down.
iterations == 2
\* largest advance of the clock during one strategy invocation
MaxTick == 1

\* ------------------------------------------------- Python exception kinds
ErrorKinds ==
    {"ImportError", "ModuleNotFoundError", "AttributeError", "NameError",
     "ValueError", "JSONDecodeError", "RuntimeError", "ConnectionError",
     "ZeroDivisionError"}

\* direct base class of each exception kind
BaseClass(e) ==
    CASE e = "ModuleNotFoundError" -> "ImportError"
      [] e = "JSONDecodeError"     -> "ValueError"
      [] OTHER                     -> "Exception"

\* isinstance(e, cls) as an except clause evaluates it
RECURSIVE IsInstance(_, _)
IsInstance(e, cls) ==
    IF e = cls THEN TRUE
    ELSE IF e = "Exception" THEN FALSE
    ELSE IsInstance(BaseClass(e), cls)

\* `except (A, B):` catches e
Catches(classes, e) == \E c \in classes : IsInstance(e, c)

Return(v) == [kind |-> "return", value |-> v]
Raise(e)  == [kind |-> "raise",  value |-> e]

\* ------------------------------------------------------ input domains
Services  == {"CryptoService", "ChainService"}
Functions == {"hash_data", "batch_hash"}
ArgLists  == {<<"a">>, <<"a", "b">>}

\* errors the native extension can raise from a constructor or a call
NativeErrorKinds == {"ImportError", "AttributeError", "ValueError", "RuntimeError"}
NativeValues == {"n1", "n2"}
NativeOutcomes ==
    {Return(v) : v \in NativeValues} \cup {Raise(e) : e \in NativeErrorKinds}
CtorOutcomes ==
    {Return("runtime")} \cup {Raise(e) : e \in NativeErrorKinds}

\* what the HTTP server answers: no connection, or a status and a body that
\* is well-formed JSON (with a parsed value) or not
HttpValues == {"h1", "h2"}
Responses ==
    {[conn |-> FALSE, status |-> 0, wellformed |-> FALSE, body |-> "h1"]}
    \cup
    {[conn |-> TRUE, status |-> s, wellformed |-> w, body |-> b] :
        s \in {200, 500}, w \in BOOLEAN, b \in HttpValues}

IsSuccessStatus(s) == s >= 200 /\ s < 300

\* --------------------------------------------------------- call_via_http
\* url = f"http://localhost:3000/api/{service_name}/{function_name}"
Url(service_name, function_name) ==
    <<"http://localhost:3000/api", service_name, function_name>>

\* response.json(): the parsed body, or JSONDecodeError on a malformed one
ResponseJson(response) ==
    IF response.wellformed THEN Return(response.body)
    ELSE Raise("JSONDecodeError")

\* requests.post(url, json=args) then response.json(); the status of the
\* response is never inspected
call_via_http(service_name, function_name, args, response) ==
    IF ~response.conn THEN Raise("ConnectionError")
    ELSE ResponseJson(response)

\* the request call_via_http puts on the wire
HttpRequest(service_name, function_name, args) ==
    [url |-> Url(service_name, function_name), json |-> args]

\* ----------------------------------------------------------- call_service
\* What one call of call_service does in environment env =
\* [ctor |-> outcome of DistAgentLangRuntime(), call |-> outcome of
\*  runtime.call_function(...), response |-> the server's answer], with the
\* global name dist_agent_lang bound or not.
\* Result: the outcome and how often each collaborator was used.
NativeAttempt(isBound, env) ==
    IF ~isBound THEN
        [outcome |-> Raise("NameError"), ctorCalls |-> 0, nativeCalls |-> 0]
    ELSE IF env.ctor.kind = "raise" THEN
        [outcome |-> env.ctor, ctorCalls |-> 1, nativeCalls |-> 0]
    ELSE
        [outcome |-> env.call, ctorCalls |-> 1, nativeCalls |-> 1]

HttpFallback(service_name, function_name, args, env, native) ==
    [outcome     |-> call_via_http(service_name, function_name, args, env.response),
     ctorCalls   |-> native.ctorCalls,
     nativeCalls |-> native.nativeCalls,
     httpCalls   |-> 1,
     requests    |-> <<HttpRequest(service_name, function_name, args)>>]

NoNative == [outcome |-> Return("none"), ctorCalls |-> 0, nativeCalls |-> 0]

call_service_NoReturn(service_name, function_name, args, prefer_ffi, isBound, env) ==
    IF prefer_ffi THEN
        LET native == NativeAttempt(isBound, env) IN
        IF native.outcome.kind = "raise"
           /\ ~Catches({"ImportError", "AttributeError"}, native.outcome.value)
        THEN [outcome |-> native.outcome, ctorCalls |-> native.ctorCalls,
              nativeCalls |-> native.nativeCalls, httpCalls |-> 0,
              requests |-> <<>>]
        ELSE HttpFallback(service_name, function_name, args, env, native)
    ELSE HttpFallback(service_name, function_name, args, env, NoNative)

call_service_AlwaysFfi(service_name, function_name, args, prefer_ffi, isBound, env) ==
    LET native == NativeAttempt(isBound, env) IN
    IF native.outcome.kind = "return" THEN
        [outcome |-> native.outcome, ctorCalls |-> native.ctorCalls,
         nativeCalls |-> native.nativeCalls, httpCalls |-> 0,
         requests |-> <<>>]
    ELSE IF Catches({"ImportError", "AttributeError"}, native.outcome.value) THEN
        HttpFallback(service_name, function_name, args, env, native)
    ELSE
        [outcome |-> native.outcome, ctorCalls |-> native.ctorCalls,
         nativeCalls |-> native.nativeCalls, httpCalls |-> 0,
         requests |-> <<>>]

call_service(service_name, function_name, args, prefer_ffi, isBound, env) ==
    IF prefer_ffi THEN
        LET native == NativeAttempt(isBound, env) IN
        IF native.outcome.kind = "return" THEN
            [outcome |-> native.outcome, ctorCalls |-> native.ctorCalls,
             nativeCalls |-> native.nativeCalls, httpCalls |-> 0,
             requests |-> <<>>]
        ELSE IF Catches({"ImportError", "AttributeError"}, native.outcome.value) THEN
            HttpFallback(service_name, function_name, args, env, native)
        ELSE
            [outcome |-> native.outcome, ctorCalls |-> native.ctorCalls,
             nativeCalls |-> native.nativeCalls, httpCalls |-> 0,
             requests |-> <<>>]
    ELSE HttpFallback(service_name, function_name, args, env, NoNative)

\* ------------------------------------------------- benchmark_ffi_vs_http
\* data = b"test_data" * 1000
data == [type |-> "bytes", text |-> "test_data*1000"]
\* data.decode()
Decode(b) == [type |-> "str", text |-> b.text]

\* arguments of the native call of one iteration (line 78)
FfiRequest == <<data, "SHA256">>
\* arguments of the network call of one iteration (line 88)
BenchHttpRequest == HttpRequest("CryptoService", "hash_data", <<Decode(data)>>)

\* `for _ in range(iterations)`: another iteration follows after i of them
InRange_OffByOne(i) == i <= iterations
InRange(i) == i < iterations

None == <<>>
Some(x) == <<x>>
\* truth value of `if x:` for x None or a number
Truthy(x) == x # None /\ x[1] # 0

\* iterations / elapsed as an exact rational; the caller has excluded 0
Throughput(n, elapsed) == <<n, elapsed>>
\* a / b for rationals a, b
RatDiv(a, b) == <<a[1] * b[2], a[2] * b[1]>>
RatEq(a, b) == a[1] * b[2] = a[2] * b[1]

\* speedup = http_time / ffi_time (line 93)
Speedup_Inverted(httpTime, ffiTime) == <<ffiTime, httpTime>>
Speedup(httpTime, ffiTime) == <<httpTime, ffiTime>>

\* one printed sample line: strategy, elapsed time and ops/sec
Sample(name, elapsed) ==
    [strategy_name |-> name, iteration_count |-> iterations,
     elapsed_seconds |-> elapsed,
     throughput_ops_per_sec |-> Throughput(iterations, elapsed)]

Event(ev, strategy, req) == [ev |-> ev, strategy |-> strategy, req |-> req]

\* ------------------------------------------------------------------ state
VARIABLES
    pc,             \* position of the program
    modulePresent,  \* environment: the native extension can be imported
    bound,          \* the global name dist_agent_lang is bound
    dispatch,       \* observation of the latest call_service call, or <<>>
    clock,          \* time.time()
    start,          \* local `start` of the benchmark
    i,              \* completed iterations of the running loop
    ffi_time,       \* local `ffi_time`: None or Some(elapsed)
    http_time,      \* local `http_time`: None or Some(elapsed)
    samples,        \* sample lines printed so far, in order
    speedup,        \* None or Some(printed speedup ratio)
    abort,          \* None or Some([error, phase, cause]) of an uncaught error
    trace           \* clock readings and strategy invocations, in order

vars == <<pc, modulePresent, bound, dispatch, clock, start, i, ffi_time,
          http_time, samples, speedup, abort, trace>>

benchVars == <<clock, start, i, ffi_time, http_time, samples, speedup,
               abort, trace>>

Init ==
    /\ pc = "load"
    /\ modulePresent \in BOOLEAN
    /\ bound = FALSE
    /\ dispatch = None
    /\ clock = 0
    /\ start = 0
    /\ i = 0
    /\ ffi_time = None
    /\ http_time = None
    /\ samples = <<>>
    /\ speedup = None
    /\ abort = None
    /\ trace = <<>>

\* Lines 8-41: import the extension and run the direct-call examples.  A
\* failed import leaves the name unbound and is caught; an error of the
\* example calls is caught only if it is an ImportError.
LoadModule ==
    /\ pc = "load"
    /\ IF ~modulePresent
       THEN /\ bound' = FALSE
            /\ pc' = "idle"
       ELSE /\ bound' = TRUE
            /\ \E out \in {Return("ok")} \cup {Raise(e) : e \in NativeErrorKinds} :
                 pc' = IF out.kind = "return" \/ Catches({"ImportError"}, out.value)
                       THEN "idle" ELSE "crashed"
    /\ UNCHANGED <<modulePresent, dispatch>>
    /\ UNCHANGED benchVars

\* One call of call_service by a client of the module.  call_service reads
\* the global name and writes no state, so calls are independent of each
\* other; each run observes one of them.
CallService ==
    /\ pc = "idle"
    /\ dispatch = None
    /\ \E s \in Services, f \in Functions, a \in ArgLists, p \in BOOLEAN,
          ctor \in CtorOutcomes, call \in NativeOutcomes, r \in Responses :
         LET env == [ctor |-> ctor, call |-> call, response |-> r]
             res == call_service(s, f, a, p, bound, env)
         IN dispatch' = Some([service_name |-> s, function_name |-> f,
                              args |-> a, prefer_ffi |-> p, env |-> env,
                              result |-> res])
    /\ UNCHANGED <<pc, modulePresent, bound>>
    /\ UNCHANGED benchVars

\* Lines 69-76: enter benchmark_ffi_vs_http and the try block.
BenchStart ==
    /\ pc = "idle"
    /\ pc' = "ffi_loop"
    /\ dispatch' = None
    /\ start' = clock
    /\ i' = 0
    /\ trace' = Append(trace, Event("start", "FFI", <<>>))
    /\ UNCHANGED <<modulePresent, bound, clock, ffi_time, http_time, samples,
                   speedup, abort>>

\* Lines 77-78, 81-83: one iteration of the native loop.
FfiIteration ==
    /\ pc = "ffi_loop"
    /\ InRange(i)
    /\ \E out \in (IF bound THEN NativeOutcomes ELSE {Raise("NameError")}),
          d \in 0..MaxTick :
         /\ trace' = IF bound
                     THEN Append(trace, Event("call", "FFI", FfiRequest))
                     ELSE trace
         /\ IF out.kind = "return" THEN
                /\ i' = i + 1
                /\ clock' = clock + d
                /\ UNCHANGED <<pc, ffi_time, abort>>
            ELSE IF Catches({"ImportError"}, out.value) THEN
                /\ ffi_time' = None
                /\ pc' = "http_start"
                /\ clock' = clock + d
                /\ UNCHANGED <<i, abort>>
            ELSE
                /\ abort' = Some([error |-> out.value, phase |-> "FFI",
                                  cause |-> "iteration"])
                /\ pc' = "aborted"
                /\ UNCHANGED <<i, clock, ffi_time>>
    /\ UNCHANGED <<modulePresent, bound, dispatch, start, http_time, samples,
                   speedup>>

\* Lines 79-80: the native loop is over; take the time and print the sample.
FfiReport ==
    /\ pc = "ffi_loop"
    /\ ~InRange(i)
    /\ ffi_time' = Some(clock - start)
    /\ trace' = Append(trace, Event("end", "FFI", <<>>))
    /\ IF clock - start = 0
       THEN /\ abort' = Some([error |-> "ZeroDivisionError", phase |-> "FFI",
                              cause |-> "report"])
            /\ pc' = "aborted"
            /\ UNCHANGED samples
       ELSE /\ samples' = Append(samples, Sample("FFI", clock - start))
            /\ pc' = "http_start"
            /\ UNCHANGED abort
    /\ UNCHANGED <<modulePresent, bound, dispatch, clock, start, i, http_time,
                   speedup>>

\* Line 86: start of the network measurement.
HttpStart ==
    /\ pc = "http_start"
    /\ pc' = "http_loop"
    /\ start' = clock
    /\ i' = 0
    /\ trace' = Append(trace, Event("start", "HTTP", <<>>))
    /\ UNCHANGED <<modulePresent, bound, dispatch, clock, ffi_time, http_time,
                   samples, speedup, abort>>

\* Lines 87-88: one iteration of the network loop; the result is dropped.
HttpIteration ==
    /\ pc = "http_loop"
    /\ InRange(i)
    /\ \E r \in Responses, d \in 0..MaxTick :
         LET out == call_via_http("CryptoService", "hash_data",
                                  <<Decode(data)>>, r)
         IN /\ trace' = Append(trace, Event("call", "HTTP",
                   HttpRequest("CryptoService", "hash_data", <<Decode(data)>>)))
            /\ IF out.kind = "return" THEN
                   /\ i' = i + 1
                   /\ clock' = clock + d
                   /\ UNCHANGED <<pc, abort>>
               ELSE
                   /\ abort' = Some([error |-> out.value, phase |-> "HTTP",
                                     cause |-> "iteration"])
                   /\ pc' = "aborted"
                   /\ UNCHANGED <<i, clock>>
    /\ UNCHANGED <<modulePresent, bound, dispatch, start, ffi_time, http_time,
                   samples, speedup>>

\* Lines 89-94: take the time, print the sample and, if ffi_time is truthy,
\* the speedup.
HttpReport ==
    /\ pc = "http_loop"
    /\ ~InRange(i)
    /\ http_time' = Some(clock - start)
    /\ trace' = Append(trace, Event("end", "HTTP", <<>>))
    /\ IF clock - start = 0
       THEN /\ abort' = Some([error |-> "ZeroDivisionError", phase |-> "HTTP",
                              cause |-> "report"])
            /\ pc' = "aborted"
            /\ UNCHANGED <<samples, speedup>>
       ELSE /\ samples' = Append(samples, Sample("HTTP", clock - start))
            /\ speedup' = IF Truthy(ffi_time)
                          THEN Some(Speedup(clock - start, ffi_time[1]))
                          ELSE None
            /\ pc' = "done"
            /\ UNCHANGED abort
    /\ UNCHANGED <<modulePresent, bound, dispatch, clock, start, i, ffi_time>>

Next ==
    \/ LoadModule
    \/ CallService
    \/ BenchStart
    \/ FfiIteration
    \/ FfiReport
    \/ HttpStart
    \/ HttpIteration
    \/ HttpReport

Spec == Init /\ [][Next]_vars

\* ------------------------------------------------------------ properties
\* the observed call_service call (only used where dispatch # None)
D == dispatch[1]

NativeAvailable == bound /\ D.env.ctor.kind = "return"

\* C1: fallback equivalence.  With the native strategy unavailable (the
\* import at load failed), call_service(..., prefer_ffi=True) invokes the
\* network strategy exactly once and has the result of
\* call_service(..., prefer_ffi=False); it does not end in an error caused
\* by the missing module.
C1_FallbackEquivalence ==
    (dispatch # None /\ D.prefer_ffi /\ ~bound) =>
        /\ D.result.httpCalls = 1
        /\ D.result.outcome =
             call_service(D.service_name, D.function_name, D.args, FALSE,
                          bound, D.env).outcome
        /\ D.result.outcome # Raise("NameError")

\* C2: no silent fallback on execution failure.  With the native strategy
\* available (module present, runtime constructed), an error of the native
\* call of any kind reaches the caller unchanged and the network strategy
\* is not invoked.
C2_NoSilentFallback ==
    (dispatch # None /\ D.prefer_ffi /\ NativeAvailable
       /\ D.env.call.kind = "raise") =>
        /\ D.result.outcome = D.env.call
        /\ D.result.httpCalls = 0

\* C3: no redundant calls.  If the native strategy is available and its
\* call succeeds, call_service(..., prefer_ffi=True) returns the native
\* result and never invokes call_via_http.
C3_NoRedundantCalls ==
    (dispatch # None /\ D.prefer_ffi /\ NativeAvailable
       /\ D.env.call.kind = "return") =>
        /\ D.result.outcome = D.env.call
        /\ D.result.nativeCalls = 1
        /\ D.result.httpCalls = 0
        /\ D.result.requests = <<>>

C3_Witness ==
    /\ dispatch # None
    /\ D.prefer_ffi
    /\ NativeAvailable
    /\ D.env.call = Return("n2")
    /\ D.env.response.conn
    /\ D.result.outcome = Return("n2")

\* C4: with prefer_ffi=False call_service invokes call_via_http exactly
\* once with the given service name, function name and arguments, neither
\* constructs a native runtime nor calls the native strategy, whether or
\* not the module is available, and returns or raises exactly what the
\* network strategy returned or raised.
C4_DirectNetwork ==
    (dispatch # None /\ ~D.prefer_ffi) =>
        /\ D.result.httpCalls = 1
        /\ D.result.requests =
             <<[url  |-> <<"http://localhost:3000/api", D.service_name,
                           D.function_name>>,
                json |-> D.args]>>
        /\ D.result.ctorCalls = 0
        /\ D.result.nativeCalls = 0
        /\ D.result.outcome =
             (IF ~D.env.response.conn THEN Raise("ConnectionError")
              ELSE IF ~D.env.response.wellformed THEN Raise("JSONDecodeError")
              ELSE Return(D.env.response.body))

C4_Witness ==
    /\ dispatch # None
    /\ ~D.prefer_ffi
    /\ NativeAvailable
    /\ D.env.call.kind = "return"
    /\ D.result.outcome = Raise("JSONDecodeError")
    /\ D.result.httpCalls = 1

SampleNames == {samples[k].strategy_name : k \in 1..Len(samples)}
SampleOf(name) ==
    CHOOSE s \in {samples[k] : k \in 1..Len(samples)} : s.strategy_name = name

\* C5: with the native strategy unavailable at benchmark start (module
\* absent), the benchmark omits the native sample, does not run the network
\* strategy in its place, runs the network measurement and reports exactly
\* one sample, the network one, without a speedup; the run does not abort
\* before the network measurement.
C5_UnavailableNativeOmitted ==
    ~bound =>
        /\ "FFI" \notin SampleNames
        /\ \A k \in 1..Len(trace) :
             trace[k].ev = "call" => trace[k].strategy = "HTTP"
        /\ abort # None => abort[1].phase = "HTTP"
        /\ pc = "done" =>
             /\ Len(samples) = 1
             /\ samples[1].strategy_name = "HTTP"
             /\ speedup = None

\* C6: call_via_http ends in an error and returns no result whenever the
\* response has a non-2xx status or a body that is not JSON; it returns the
\* parsed body only for a success status with a well-formed body.
C6_HttpErrorOnBadResponse ==
    (dispatch # None /\ D.result.httpCalls = 1) =>
        LET r  == D.env.response
            ok == r.conn /\ IsSuccessStatus(r.status) /\ r.wellformed
        IN /\ ok => D.result.outcome = Return(r.body)
           /\ ~ok => D.result.outcome.kind = "raise"

\* C7: the speedup is reported exactly when both the native and the network
\* sample were produced, and it equals throughput(native) /
\* throughput(network), each throughput being that sample's
\* iteration_count / elapsed_seconds with the same iteration count.
C7_SpeedupRatio ==
    /\ speedup # None <=> SampleNames = {"FFI", "HTTP"}
    /\ speedup # None =>
         LET n == SampleOf("FFI")
             h == SampleOf("HTTP")
         IN /\ n.iteration_count = h.iteration_count
            /\ n.elapsed_seconds # 0 /\ h.elapsed_seconds # 0
            /\ RatEq(speedup[1],
                     RatDiv(<<n.iteration_count, n.elapsed_seconds>>,
                            <<h.iteration_count, h.elapsed_seconds>>))

C7_Witness ==
    /\ pc = "done"
    /\ speedup # None
    /\ SampleOf("FFI").elapsed_seconds = 1
    /\ SampleOf("HTTP").elapsed_seconds = 2

\* C8: the throughput of every measured strategy is iteration_count /
\* elapsed_seconds when elapsed_seconds > 0, and an elapsed time of 0 is
\* guarded: the run does not fail on a division by zero.
C8_ThroughputGuarded ==
    /\ \A k \in 1..Len(samples) :
         samples[k].elapsed_seconds > 0 =>
           samples[k].throughput_ops_per_sec =
             <<samples[k].iteration_count, samples[k].elapsed_seconds>>
    /\ abort # None => abort[1].error # "ZeroDivisionError"

\* C9: failure isolation.  A failing iteration aborts the measurement of
\* its own strategy only (no further iteration, no sample for it); a
\* failing native iteration, with the module available, does not prevent
\* the network measurement.
C9_FailureIsolation ==
    /\ (abort # None /\ abort[1].cause = "iteration") =>
          abort[1].phase \notin SampleNames
    /\ ~(bound /\ abort # None /\ abort[1].cause = "iteration"
           /\ abort[1].phase = "FFI")

Positions(ev, strategy) ==
    {k \in 1..Len(trace) : trace[k].ev = ev /\ trace[k].strategy = strategy}

FixedRequest(strategy) ==
    IF strategy = "FFI"
    THEN <<[type |-> "bytes", text |-> "test_data*1000"], "SHA256">>
    ELSE [url  |-> <<"http://localhost:3000/api", "CryptoService", "hash_data">>,
          json |-> <<[type |-> "str", text |-> "test_data*1000"]>>]

\* C10: in a run where no iteration fails, each measured strategy is
\* invoked exactly iteration_count times, one invocation after the other,
\* with the same payload and the same service and function names; its
\* start time is taken before its first invocation and its end time after
\* its last; every native invocation precedes every network invocation.
C10_SequentialIterations ==
    pc = "done" =>
        /\ \A st \in SampleNames :
             /\ Cardinality(Positions("call", st)) = iterations
             /\ Cardinality(Positions("start", st)) = 1
             /\ Cardinality(Positions("end", st)) = 1
             /\ \A c \in Positions("call", st) :
                  /\ trace[c].req = FixedRequest(st)
                  /\ \A s \in Positions("start", st) : s < c
                  /\ \A e \in Positions("end", st) : c < e
        /\ \A p, q \in 1..Len(trace) :
             (trace[p].strategy = "FFI" /\ trace[q].strategy = "HTTP") => p < q

C10_Witness ==
    /\ pc = "done"
    /\ SampleNames = {"FFI", "HTTP"}
    /\ Cardinality(Positions("call", "FFI")) = iterations
    /\ Cardinality(Positions("call", "HTTP")) = iterations
====
